---- MODULE Spec2Model ----
(***************************************************************************)
(* Model of CameraTool (src/tools/camera_tool.py): the acquisition thread, *)
(* the periodic processor, the session lifecycle and the command handlers. *)
(*                                                                         *)
(* Two flows run concurrently: the command caller (one GUI/CLI thread) and *)
(* the frame grabber threads started by _start_camera.  A thread's steps   *)
(* are split where the source releases control between accesses of shared  *)
(* state (device read, detector call, file write); a command handler is    *)
(* one step, except where a thread can observably run inside it: the       *)
(* bounded join of _stop_camera and the assignments of _start_session.     *)
(***************************************************************************)
EXTENDS Integers, Sequences, FiniteSets, Bags, TLC

\* ------------------------------------------------------------------ bounds
MaxTime == 1          \* the clock runs 0..MaxTime
MaxThreads == 1       \* frame grabber threads alive at once
MaxTicks == 2         \* gate passes counted during one session
MaxGrabbers == 2      \* frame grabber threads alive at once in GrabSpec
MaxCoord == 4         \* box coordinates and sizes run 0..MaxCoord in GuidanceSpec
MaxArrow == 5         \* arrow components run -MaxArrow..MaxArrow in CommandSpec

\* --------------------------------------------------------- program constants
CaptureInterval == 1  \* settings.camera.capture_interval, in clock units

\* ------------------------------------------------------------------- values
None == "None"                 \* Python None, where the other values are strings
NoTime == -1                   \* Python None / no frame, where the others are times
NoPath == <<>>                 \* Python None, where the other values are paths

UserIds == {"abc"}             \* session ids a caller passes
SessionIdParams == UserIds \cup {None}

\* datetime.now().strftime("%Y%m%d_%H%M%S"): one string per second of the clock
Stamps == <<"t0", "t1", "t2", "t3", "t4", "t5", "t6", "t7", "t8", "t9">>
strftime(t) == Stamps[t + 1]

\* os.path.join(self.image_dir, session_id)
SessionDirPath(id) == <<"image_dir", id>>
\* os.path.join(self.session_dir, f"{date_str}_{ms:03d}.jpg")
ImagePath(dir, timestamp) == dir \o <<strftime(timestamp)>>

\* frame.shape[:2] of the frames the device delivers: <<height, width>>
FrameShapes == {<<6, 8>>, <<5, 7>>}
\* what _detect_reading_material returns (lines 352-364): a list of detections,
\* each with the key "box" ([x, y, w, h]); "confidence" is left out
Coords == 0..MaxCoord
Boxes == {<<x, y, w, w>> : x \in Coords, y \in {0, MaxCoord}, w \in {1, 2}}
Detections == {[box |-> b] : b \in Boxes}
MaterialLists == {<<>>} \cup {<<d>> : d \in Detections}
                        \cup {<<d, [box |-> <<0, 0, 2, 2>>]>> : d \in Detections}
ArrowRange == (0 - MaxArrow)..MaxArrow

VARIABLES
    camera_running,      \* self.camera_running
    session_active,      \* self.session_active
    session_id,          \* self.session_id
    session_dir,         \* self.session_dir
    captured_images,     \* the list object self.captured_images refers to
    current_raw_frame,   \* self.current_raw_frame (a frame is named by its read time)
    last_frame_time,     \* self.last_frame_time
    current_frame,       \* self.current_frame
    last_processed_time, \* self.last_processed_time
    next_process_time,   \* self.next_process_time
    camera,              \* self.camera: "None" or "open"
    threads,             \* bag of live frame grabber threads (pc and locals)
    caller,              \* position of the command caller
    result,              \* what the command that has just returned returned
    now,                 \* time.time()
    dirs,                \* session directories on disk
    preview_file,        \* the frame in the file self.preview_file, by its timestamp
    frame_shape,         \* the scene: shape of the frames the device delivers
    materials,           \* the scene: what the material detector finds in a frame
    faces,               \* the scene: what the face detector finds in a frame
    detector_raises,     \* the scene: the detectors whose call raises
    arrow_dx,            \* lines 711-712, as inputs of the command of lines 716-726
    arrow_dy,
    robot_command,       \* line 726, None before it is computed
    ticks_since,         \* history: gate passes of the session since its list reset
    inflight_at_reset,   \* history: ticks that were mid-flight at that list reset
    frame_cb_due         \* history: ticks that hold a frame and have not yet
                         \* called on_frame_captured

vars == <<camera_running, session_active, session_id, session_dir, captured_images,
          current_raw_frame, last_frame_time, current_frame, last_processed_time,
          next_process_time, camera, threads, caller, result, now, dirs,
          preview_file,
          frame_shape, materials, faces, detector_raises, arrow_dx, arrow_dy,
          robot_command,
          ticks_since, inflight_at_reset, frame_cb_due>>

sessionState == <<session_active, session_id, session_dir, captured_images>>
frameState == <<current_raw_frame, last_frame_time, current_frame,
                last_processed_time>>
toolState == <<camera_running, sessionState, frameState, next_process_time, camera>>
diskState == <<dirs, preview_file>>
\* the scene in front of the camera, fixed during a behaviour
scene == <<frame_shape, materials, faces, detector_raises>>
\* the variables of CommandSpec
commandState == <<arrow_dx, arrow_dy, robot_command>>
guidanceState == <<scene, commandState>>
sessionHistory == <<ticks_since, inflight_at_reset>>
history == <<sessionHistory, frame_cb_due>>

\* --------------------------------------------------------------- threads
\* A thread: its position, the frame its device read returned (line 478) and the
\* locals of _process_frame_if_needed; `preview_error` says that the except branch
\* of lines 545-546 was taken.  `fresh` says that the list object the
\* thread looked up for its append is the one self.captured_images still refers to.
NewThread == [pc |-> "open", frame |-> NoTime, current_time |-> NoTime,
              process_frame |-> NoTime, ts |-> NoTime, preview_error |-> FALSE,
              path |-> NoPath, fresh |-> FALSE, sid |-> None]
Goto(th, pc) == [th EXCEPT !.pc = pc]
BackToLoop == [NewThread EXCEPT !.pc = "loop"]
Live == BagToSet(threads)
Replace(th, th2) == (threads (-) SetToBag({th})) (+) SetToBag({th2})
Remove(th) == threads (-) SetToBag({th})
\* self.current_frame_lock is free unless a command holds it (lines 658-743)
LockFree == caller # "detecting"
\* positions inside a processing tick (after the copy, before its return)
TickPcs == {"store", "preview", "session", "append", "append2"}
InFlight == BagCardinality([th \in {x \in Live : x.pc \in TickPcs} |-> threads[th]])
\* line 293 rebinds self.captured_images: a list object looked up before is no
\* longer the session's list
Stale(th) == [th EXCEPT !.fresh = FALSE]

\* ------------------------------------------------------------ detectors
\* DetectFaces that lets the detections of a raising call through
DetectFacesIgnoresRaise == faces
\* _detect_faces, lines 324-340: the boxes found, or [] when the call raises
DetectFaces == IF "faces" \in detector_raises THEN <<>> ELSE faces
\* _detect_reading_material, lines 342-367: the same for materials
DetectReadingMaterial == IF "materials" \in detector_raises THEN <<>> ELSE materials

\* ------------------------------------------------------------ guidance
\* RobotCommand that joins the vertical token without the underscore
RobotCommandNoUnderscore(dx, dy) ==
    LET horizontal == IF dx > 0 THEN "RIGHT" ELSE IF dx < 0 THEN "LEFT" ELSE ""
        direction == IF dy > 0 THEN horizontal \o "DOWN"
                     ELSE IF dy < 0 THEN horizontal \o "UP" ELSE horizontal
    IN  IF direction # "" THEN "MOVE_" \o direction ELSE "CENTERED"

\* lines 716-726: the command of an arrow
RobotCommand(dx, dy) ==
    LET horizontal == IF dx > 0 THEN "RIGHT" ELSE IF dx < 0 THEN "LEFT" ELSE ""
        direction ==
            IF dy > 0
            THEN horizontal \o (IF horizontal # "" THEN "_DOWN" ELSE "DOWN")
            ELSE IF dy < 0
                 THEN horizontal \o (IF horizontal # "" THEN "_UP" ELSE "UP")
                 ELSE horizontal
    IN  IF direction # "" THEN "MOVE_" \o direction ELSE "CENTERED"

\* dict.get(key, default) on a detection
MaterialGet(material, key, default) ==
    IF key \in DOMAIN material THEN material[key] ELSE default

\* "robot_guidance" of lines 695 and 705-733; `keys` are the keys of the map
\* (movement_magnitude, a square root, is only named)
NoGuidance == [keys |-> {}, arrow_dx |-> 0, arrow_dy |-> 0, robot_command |-> None]
RobotGuidance(shape, mats) ==
    LET img_center_x == shape[2] \div 2
        img_center_y == shape[1] \div 2
        material == mats[1]
        bbox_center_x == MaterialGet(material, "bbox_center_x", img_center_x)
        bbox_center_y == MaterialGet(material, "bbox_center_y", img_center_y)
        dx == img_center_x - bbox_center_x
        dy == img_center_y - bbox_center_y
    IN  IF mats = <<>> THEN NoGuidance
        ELSE [keys |-> {"arrow_dx", "arrow_dy", "movement_magnitude",
                        "robot_command"},
              arrow_dx |-> dx, arrow_dy |-> dy,
              robot_command |-> RobotCommand(dx, dy)]

\* "detection_data" of lines 670-735: empty when the raw slot is empty
NoData == [keys |-> {}, robot_guidance |-> NoGuidance]
DetectionData(raw, shape, mats) ==
    IF raw = NoTime THEN NoData
    ELSE [keys |-> {"reading_materials", "faces", "face_count", "positioning",
                    "robot_guidance", "session_info"},
          robot_guidance |-> RobotGuidance(shape, mats)]

\* ------------------------------------------------------------- results
Idle == "idle"
\* What process_command returns: `type` is the Python type of the value, `keys`
\* the keys of a returned map, the other fields the values of the keys the
\* claims are about; `detected` (the frame the detectors of the call were run
\* on), `written` (the files the call wrote) and `ticks` (the session's ticks at
\* return) are history.
NoResult == [cmd |-> "none", type |-> "dict", keys |-> {}, success |-> FALSE,
             session_id |-> None, images |-> <<>>, detection_data |-> NoData,
             timestamp |-> NoTime, detected |-> NoTime,
             written |-> {}, ticks |-> 0]
Result(cmd, ok) == [NoResult EXCEPT !.cmd = cmd, !.success = ok,
                                    !.keys = {"success", "message"}]
\* the session's history runs from the list reset to the end of the session
Counting == session_active \/ caller = "ss_activate"

\* CameraTool.__init__, lines 47-63
InitTool ==
    /\ camera_running = FALSE
    /\ session_active = FALSE
    /\ session_id = None
    /\ session_dir = NoPath
    /\ captured_images = <<>>
    /\ current_raw_frame = NoTime
    /\ last_frame_time = 0
    /\ current_frame = NoTime
    /\ last_processed_time = 0
    /\ next_process_time = 0
    /\ camera = None
    /\ threads = EmptyBag
    /\ caller = Idle
    /\ result = NoResult
    /\ now = 0
    /\ dirs = {}
    /\ preview_file = NoTime
    /\ ticks_since = 0
    /\ inflight_at_reset = 0
    /\ frame_cb_due = 0

\* a face and a material in a corner of the frame, and detectors that work
OneFaceOneMaterial ==
    /\ materials = <<[box |-> <<0, 0, 2, 2>>]>>
    /\ faces = <<<<0, 0, 2, 2>>>>
\* one scene in front of the camera: 8 x 6 frames
OneScene ==
    /\ frame_shape = <<6, 8>>
    /\ OneFaceOneMaterial
    /\ detector_raises = {}
\* no arrow handed to lines 716-726 on its own
NoArrow ==
    /\ arrow_dx = 0
    /\ arrow_dy = 0
    /\ robot_command = None

Init ==
    /\ InitTool
    /\ OneScene
    /\ NoArrow

\* time passes
AdvanceTime ==
    /\ now < MaxTime
    /\ now' = now + 1
    /\ result' = NoResult
    /\ UNCHANGED <<guidanceState, toolState, threads, caller, diskState, history>>

\* ------------------------------------------------- _frame_grabber_loop
\* lines 462-466: open the device; on failure clear the running flag and return
\* through the finally block (lines 497-502)
ThreadOpen(th) ==
    /\ result' = NoResult
    /\ th.pc = "open"
    /\ \E opened \in BOOLEAN :
         IF opened
         THEN /\ camera' = "open"
              /\ threads' = Replace(th, Goto(th, "loop"))
              /\ UNCHANGED camera_running
         ELSE /\ camera_running' = FALSE
              /\ camera' = None
              /\ threads' = Remove(th)
    /\ UNCHANGED <<guidanceState, sessionState, frameState, next_process_time, caller, now,
                   diskState, history>>

\* line 476: the loop test; when the flag is clear, the finally block releases the
\* device and the thread ends
ThreadLoop(th) ==
    /\ result' = NoResult
    /\ th.pc = "loop"
    /\ IF camera_running
       THEN /\ threads' = Replace(th, Goto(th, "read"))
            /\ UNCHANGED camera
       ELSE /\ camera' = None
            /\ threads' = Remove(th)
    /\ UNCHANGED <<guidanceState, camera_running, sessionState, frameState, next_process_time,
                   caller, now, diskState, history>>

\* ThreadRead whose failed read goes on to the processing check
ThreadReadFailedChecks(th) ==
    /\ result' = NoResult
    /\ th.pc = "read"
    /\ IF camera = None
       THEN threads' = Remove(th)
       ELSE \E ret \in BOOLEAN :
              threads' = IF ret
                         THEN Replace(th, [Goto(th, "raw") EXCEPT !.frame = now])
                         ELSE Replace(th, Goto(th, "gate"))
    /\ UNCHANGED <<guidanceState, toolState, caller, now, diskState, history>>

\* lines 478-490: one device read, which returns the frame of that moment; a
\* failed one (ret is False) logs and backs off.  self.camera is shared: when
\* another thread's finally block has set it to None the call raises, and the
\* thread ends through the except and finally blocks (lines 495-502) with the
\* running flag untouched.
ThreadRead(th) ==
    /\ result' = NoResult
    /\ th.pc = "read"
    /\ IF camera = None
       THEN threads' = Remove(th)
       ELSE \E ret \in BOOLEAN :
              threads' = IF ret
                         THEN Replace(th, [Goto(th, "raw") EXCEPT !.frame = now])
                         ELSE Replace(th, Goto(th, "backoff"))
    /\ UNCHANGED <<guidanceState, toolState, caller, now, diskState, history>>

\* line 491: time.sleep(0.1) returns, and the loop goes on with its test
ThreadBackoff(th) ==
    /\ result' = NoResult
    /\ th.pc = "backoff"
    /\ threads' = Replace(th, BackToLoop)
    /\ UNCHANGED <<guidanceState, toolState, caller, now, diskState, history>>

\* lines 482-484: under the lock, the frame read replaces the raw slot and the
\* slot's timestamp is the time of the store
ThreadRaw(th) ==
    /\ result' = NoResult
    /\ th.pc = "raw"
    /\ LockFree
    /\ current_raw_frame' = th.frame
    /\ last_frame_time' = now
    /\ threads' = Replace(th, [Goto(th, "gate") EXCEPT !.frame = NoTime])
    /\ UNCHANGED <<guidanceState, camera_running, sessionState, current_frame,
                   last_processed_time, next_process_time, camera, caller, now,
                   diskState, history>>

\* ----------------------------------------------- _process_frame_if_needed
\* ThreadGate whose gate lets a check that is not due go on to the swap and the
\* callback
ThreadGateNotDueCalls(th) ==
    /\ result' = NoResult
    /\ th.pc = "gate"
    /\ threads' = IF now < next_process_time
                  THEN Replace(th, [Goto(th, "store") EXCEPT
                                       !.process_frame = current_raw_frame,
                                       !.ts = last_frame_time])
                  ELSE Replace(th, [Goto(th, "due") EXCEPT !.current_time = now])
    /\ UNCHANGED <<guidanceState, toolState, caller, now, diskState, history>>

\* lines 509-513: the time of the check and the gate; nothing is locked
ThreadGate(th) ==
    /\ result' = NoResult
    /\ th.pc = "gate"
    /\ threads' = IF now < next_process_time
                  THEN Replace(th, BackToLoop)
                  ELSE Replace(th, [Goto(th, "due") EXCEPT !.current_time = now])
    /\ UNCHANGED <<guidanceState, toolState, caller, now, diskState, history>>

\* lines 516-528: the next due time, from the time of the check, then the copy of
\* the raw slot under the lock; with the slot empty the tick returns
ThreadDue(th) ==
    /\ result' = NoResult
    /\ th.pc = "due"
    /\ LockFree
    /\ Counting => ticks_since < MaxTicks
    /\ next_process_time' = th.current_time + CaptureInterval
    /\ ticks_since' = IF Counting THEN ticks_since + 1 ELSE ticks_since
    /\ IF current_raw_frame = NoTime
       THEN /\ threads' = Replace(th, BackToLoop)
            /\ UNCHANGED frame_cb_due
       ELSE /\ threads' = Replace(th, [Goto(th, "store") EXCEPT
                                          !.current_time = NoTime,
                                          !.process_frame = current_raw_frame,
                                          !.ts = last_frame_time])
            /\ frame_cb_due' = frame_cb_due + 1
    /\ UNCHANGED <<guidanceState, camera_running, sessionState, frameState, camera,
                   caller, now, diskState, inflight_at_reset>>

\* lines 531-550: annotate the copy (detectors run here), swap the processed slot
\* under the lock, write the preview file (`written`; a failure is caught and
\* logged, and the file keeps what it held), then call on_frame_captured; an
\* exception of the callback leaves _process_frame_if_needed and ends the
\* thread (lines 495-502)
ThreadStore(th) ==
    /\ result' = NoResult
    /\ th.pc = "store"
    /\ LockFree
    /\ current_frame' = th.process_frame
    /\ last_processed_time' = th.ts
    /\ frame_cb_due' = frame_cb_due - 1
    /\ \E written, raised \in BOOLEAN :
         /\ preview_file' = IF written THEN th.ts ELSE preview_file
         /\ IF raised
            THEN /\ camera' = None
                 /\ threads' = Remove(th)
            ELSE /\ threads' = Replace(th, [Goto(th, "session") EXCEPT
                                               !.preview_error = ~written])
                 /\ UNCHANGED camera
    /\ UNCHANGED <<guidanceState, camera_running, sessionState, current_raw_frame,
                   last_frame_time, next_process_time, caller, now, dirs,
                   sessionHistory>>

\* lines 531-540 on their own: annotate the copy and swap the processed slot
\* under the lock
ThreadSwap(th) ==
    /\ result' = NoResult
    /\ th.pc = "store"
    /\ LockFree
    /\ current_frame' = th.process_frame
    /\ last_processed_time' = th.ts
    /\ threads' = Replace(th, Goto(th, "preview"))
    /\ UNCHANGED <<guidanceState, camera_running, sessionState, current_raw_frame,
                   last_frame_time, next_process_time, camera, caller, now,
                   diskState, history>>

\* lines 543-550 on their own: the write of the preview file, then
\* on_frame_captured
ThreadPreview(th) ==
    /\ result' = NoResult
    /\ th.pc = "preview"
    /\ frame_cb_due' = frame_cb_due - 1
    /\ \E written, raised \in BOOLEAN :
         /\ preview_file' = IF written THEN th.ts ELSE preview_file
         /\ IF raised
            THEN /\ camera' = None
                 /\ threads' = Remove(th)
            ELSE /\ threads' = Replace(th, [Goto(th, "session") EXCEPT
                                               !.preview_error = ~written])
                 /\ UNCHANGED camera
    /\ UNCHANGED <<guidanceState, camera_running, sessionState, frameState,
                   next_process_time, caller, now, dirs, sessionHistory>>

\* lines 553-560: the session test and the file name, then cv2.imwrite of the raw
\* copy: it returns (the file written, or False and no file), or raises (caught at
\* line 578, the record is skipped)
ThreadSession(th) ==
    /\ result' = NoResult
    /\ th.pc = "session"
    /\ IF session_active /\ session_dir # NoPath
       THEN \E raised \in BOOLEAN :
              threads' = IF raised
                         THEN Replace(th, BackToLoop)
                         ELSE Replace(th, [Goto(th, "append") EXCEPT
                                              !.process_frame = NoTime,
                                              !.preview_error = FALSE,
                                              !.path = ImagePath(session_dir, th.ts)])
       ELSE threads' = Replace(th, BackToLoop)
    /\ UNCHANGED <<guidanceState, toolState, caller, now, diskState, history>>

\* lines 564-568: self.captured_images.append( is evaluated first (the list object
\* is looked up), then the record's fields, self.session_id among them; the
\* detectors of lines 570-571 run after that
ThreadAppend(th) ==
    /\ result' = NoResult
    /\ th.pc = "append"
    /\ threads' = Replace(th, [Goto(th, "append2") EXCEPT
                                  !.fresh = TRUE, !.sid = session_id])
    /\ UNCHANGED <<guidanceState, toolState, caller, now, diskState, history>>

\* ThreadAppend2 that appends its record twice
ThreadAppend2Twice(th) ==
    /\ result' = NoResult
    /\ th.pc = "append2"
    /\ captured_images' =
           LET rec == [filename |-> th.path, timestamp |-> th.ts,
                       session_id |-> th.sid, faces |-> Len(DetectFaces),
                       reading_materials |-> Len(DetectReadingMaterial)]
           IN  IF th.fresh THEN captured_images \o <<rec, rec>>
               ELSE captured_images
    /\ threads' = Replace(th, BackToLoop)
    /\ UNCHANGED <<guidanceState, camera_running, session_active, session_id, session_dir,
                   frameState, next_process_time, camera, caller, now, diskState,
                   history>>

\* lines 564-579: the append itself, on the list object looked up before the
\* detectors ran (a list self.captured_images no longer refers to is out of the
\* tool's reach), then on_image_captured (its exceptions are caught)
ThreadAppend2(th) ==
    /\ result' = NoResult
    /\ th.pc = "append2"
    /\ captured_images' =
           IF th.fresh
           THEN Append(captured_images,
                       [filename |-> th.path, timestamp |-> th.ts,
                        session_id |-> th.sid, faces |-> Len(DetectFaces),
                        reading_materials |-> Len(DetectReadingMaterial)])
           ELSE captured_images
    /\ threads' = Replace(th, BackToLoop)
    /\ UNCHANGED <<guidanceState, camera_running, session_active, session_id, session_dir,
                   frameState, next_process_time, camera, caller, now, diskState,
                   history>>

\* one step of some live frame grabber thread
OpenStep == \E th \in Live : ThreadOpen(th)
LoopStep == \E th \in Live : ThreadLoop(th)
ReadStep == \E th \in Live : ThreadRead(th)
BackoffStep == \E th \in Live : ThreadBackoff(th)
RawStep == \E th \in Live : ThreadRaw(th)
GateStep == \E th \in Live : ThreadGate(th)
DueStep == \E th \in Live : ThreadDue(th)
StoreStep == \E th \in Live : ThreadStore(th)
SwapStep == \E th \in Live : ThreadSwap(th)
PreviewStep == \E th \in Live : ThreadPreview(th)
SessionStep == \E th \in Live : ThreadSession(th)
AppendStep == \E th \in Live : ThreadAppend(th)
Append2Step == \E th \in Live : ThreadAppend2(th)

\* ------------------------------------------------------------ commands
\* The caller issues one command at a time (process_command, lines 166-209).

\* "session_data" of lines 588, 606 and 776-781, "session_info" of lines 311-314:
\* the id and the list
SessionData(cmd, ok) ==
    [Result(cmd, ok) EXCEPT !.session_id = session_id, !.images = captured_images,
                            !.keys = @ \cup {IF cmd = "start_session"
                                             THEN "session_info"
                                             ELSE "session_data"},
                            !.ticks = ticks_since + inflight_at_reset]

\* lines 748-771: _get_captured_images writes session_info.txt into the session
\* directory when the list is not empty (a failure of the write is caught)
SummaryWritten ==
    IF captured_images # <<>> /\ session_dir # NoPath
    THEN {session_dir \o <<"session_info.txt">>}
    ELSE {}

\* _start_camera, lines 243-273, with at most `max` threads alive.  `started` is
\* false when creating the thread raises
StartCameraUpTo(max) ==
    /\ caller = "idle"
    /\ IF camera_running
       THEN /\ result' = Result("start_camera", TRUE)
            /\ UNCHANGED <<camera_running, next_process_time, threads>>
       ELSE /\ BagCardinality(threads) < max
            /\ next_process_time' = 0
            /\ \E started \in BOOLEAN :
                 /\ camera_running' = started
                 /\ threads' = IF started THEN threads (+) SetToBag({NewThread})
                               ELSE threads
                 /\ result' = Result("start_camera", started)
    /\ UNCHANGED <<guidanceState, sessionState, frameState, camera, caller, now, diskState,
                   history>>

StartCamera == StartCameraUpTo(MaxThreads)

\* StartSession without the guard of lines 277-282
StartSessionNoGuard(id) ==
    /\ caller = "idle"
    /\ camera_running \/ BagCardinality(threads) < MaxThreads
    /\ session_id' = IF id = None THEN strftime(now) ELSE id
    /\ session_dir' = SessionDirPath(session_id')
    /\ dirs' = dirs \cup {session_dir'}
    /\ caller' = "ss_reset"
    /\ result' = NoResult
    /\ UNCHANGED <<guidanceState, camera_running, session_active, captured_images, frameState,
                   next_process_time, camera, threads, now, preview_file, history>>

\* _start_session, lines 277-290: the guard, the id and the directory.  A failure of
\* os.makedirs is caught at line 316, after self.session_id was assigned
StartSession(id) ==
    /\ caller = "idle"
    /\ IF session_active
       THEN /\ result' = Result("start_session", FALSE)
            /\ UNCHANGED <<session_id, session_dir, dirs, caller>>
       ELSE /\ camera_running \/ BagCardinality(threads) < MaxThreads
            /\ session_id' = IF id = None THEN strftime(now) ELSE id
            /\ \E made \in BOOLEAN :
                 IF made
                 THEN /\ session_dir' = SessionDirPath(session_id')
                      /\ dirs' = dirs \cup {session_dir'}
                      /\ caller' = "ss_reset"
                      /\ result' = NoResult
                 ELSE /\ result' = Result("start_session", FALSE)
                      /\ UNCHANGED <<session_dir, dirs, caller>>
    /\ UNCHANGED <<guidanceState, camera_running, session_active, captured_images, frameState,
                   next_process_time, camera, threads, now, preview_file, history>>

\* StartSessionReset without the assignment of line 293
StartSessionResetKeepsList ==
    /\ caller = "ss_reset"
    /\ ticks_since' = 0
    /\ inflight_at_reset' = InFlight
    /\ caller' = "ss_activate"
    /\ result' = NoResult
    /\ UNCHANGED <<guidanceState, toolState, threads, now, diskState, frame_cb_due>>

\* _start_session, line 293: a new, empty list object
StartSessionReset ==
    /\ caller = "ss_reset"
    /\ captured_images' = <<>>
    /\ threads' = BagOfAll(Stale, threads)
    /\ ticks_since' = 0
    /\ inflight_at_reset' = InFlight
    /\ caller' = "ss_activate"
    /\ result' = NoResult
    /\ UNCHANGED <<guidanceState, camera_running, session_active, session_id, session_dir,
                   frameState, next_process_time, camera, now, diskState,
                   frame_cb_due>>

\* _start_session, lines 296-315: set the flag, start the camera when it is not
\* running, roll the flag back when that start fails
StartSessionActivate ==
    /\ caller = "ss_activate"
    /\ caller' = Idle
    /\ IF camera_running
       THEN /\ session_active' = TRUE
            /\ result' = SessionData("start_session", TRUE)
            /\ UNCHANGED <<camera_running, next_process_time, threads,
                           sessionHistory>>
       ELSE /\ next_process_time' = 0
            /\ \E started \in BOOLEAN :
                 /\ camera_running' = started
                 /\ session_active' = started
                 /\ threads' = IF started THEN threads (+) SetToBag({NewThread})
                               ELSE threads
                 /\ result' = IF started
                              THEN SessionData("start_session", TRUE)
                              ELSE Result("start_session", FALSE)
                 /\ IF started
                    THEN UNCHANGED sessionHistory
                    ELSE ticks_since' = 0 /\ inflight_at_reset' = 0
    /\ UNCHANGED <<guidanceState, session_id, session_dir, captured_images, frameState, camera,
                   now, diskState, frame_cb_due>>

\* EndSession that also stops the camera and clears the slots
EndSessionStopsCamera ==
    /\ caller = "idle"
    /\ session_active
    /\ session_active' = FALSE
    /\ camera_running' = FALSE
    /\ current_raw_frame' = NoTime
    /\ current_frame' = NoTime
    /\ result' = SessionData("end_session", TRUE)
    /\ ticks_since' = 0
    /\ inflight_at_reset' = 0
    /\ UNCHANGED <<guidanceState, session_id, session_dir, captured_images, last_frame_time,
                   last_processed_time, next_process_time, camera, threads, caller,
                   now, diskState, frame_cb_due>>

\* EndSession that forgets the previous session when none is active
EndSessionClearsPrior ==
    /\ caller = "idle"
    /\ ~session_active
    /\ session_id' = None
    /\ captured_images' = <<>>
    /\ result' = SessionData("end_session", FALSE)
    /\ UNCHANGED <<guidanceState, camera_running, session_active, session_dir, frameState,
                   next_process_time, camera, threads, caller, now, diskState,
                   history>>

\* _end_session, lines 581-614.  The "images" it returns is the list object, and the
\* only accesses between the snapshot (line 595) and the flag (line 600) are reads,
\* so the handler is one step.
EndSession ==
    /\ caller = "idle"
    /\ IF session_active
       THEN /\ session_active' = FALSE
            /\ result' = [SessionData("end_session", TRUE) EXCEPT
                             !.written = SummaryWritten]
            /\ ticks_since' = 0
            /\ inflight_at_reset' = 0
       ELSE /\ result' = SessionData("end_session", FALSE)
            /\ UNCHANGED <<session_active, sessionHistory>>
    /\ UNCHANGED <<guidanceState, camera_running, session_id, session_dir, captured_images,
                   frameState, next_process_time, camera, threads, caller, now,
                   diskState, frame_cb_due>>

\* _stop_camera, lines 618-631: end the session, then clear the running flag
StopCamera ==
    /\ caller = "idle"
    /\ session_active' = FALSE
    /\ ticks_since' = 0
    /\ inflight_at_reset' = 0
    /\ IF camera_running
       THEN /\ camera_running' = FALSE
            /\ caller' = "joining"
            /\ result' = NoResult
       ELSE /\ result' = Result("stop_camera", TRUE)
            /\ UNCHANGED <<camera_running, caller>>
    /\ UNCHANGED <<guidanceState, session_id, session_dir, captured_images, frameState,
                   next_process_time, camera, threads, now, diskState,
                   frame_cb_due>>

\* StopCameraJoin whose join has no timeout: it waits for the threads to end
StopCameraJoinWaits ==
    /\ caller = "joining"
    /\ threads = EmptyBag
    /\ current_raw_frame' = NoTime
    /\ current_frame' = NoTime
    /\ result' = Result("stop_camera", TRUE)
    /\ caller' = Idle
    /\ UNCHANGED <<guidanceState, camera_running, sessionState, last_frame_time,
                   last_processed_time, next_process_time, camera, threads, now,
                   diskState, history>>

\* _stop_camera, lines 634-648: join returns when the thread has ended or after the
\* 5 s timeout, whatever the thread is doing; then both slots are cleared
StopCameraJoin ==
    /\ caller = "joining"
    /\ current_raw_frame' = NoTime
    /\ current_frame' = NoTime
    /\ result' = Result("stop_camera", TRUE)
    /\ caller' = Idle
    /\ UNCHANGED <<guidanceState, camera_running, sessionState, last_frame_time,
                   last_processed_time, next_process_time, camera, threads, now,
                   diskState, history>>

\* _get_captured_images, lines 745-782
GetCapturedImages ==
    /\ caller = "idle"
    /\ result' = [SessionData("get_captured_images", TRUE) EXCEPT
                     !.written = SummaryWritten]
    /\ UNCHANGED <<guidanceState, toolState, threads, caller, now, diskState, history>>

\* _get_current_frame, lines 656-743: under the lock; success iff the processed slot
\* is filled
CurrentFrameResult ==
    [Result("get_current_frame", current_frame # NoTime) EXCEPT
        !.keys = @ \cup {"frame_path", "timestamp", "detection_data"},
        !.timestamp = IF current_frame = NoTime THEN NoTime
                      ELSE last_processed_time,
        !.detected = IF current_frame = NoTime THEN NoTime ELSE current_raw_frame,
        !.detection_data =
            IF current_frame = NoTime THEN NoData
            ELSE DetectionData(current_raw_frame, frame_shape,
                               DetectReadingMaterial)]

GetCurrentFrame ==
    /\ caller = "idle"
    /\ result' = CurrentFrameResult
    /\ UNCHANGED <<guidanceState, toolState, threads, caller, now, diskState, history>>

\* _get_current_frame in two steps, lines 658-674: the lock is taken and, with both
\* slots filled, the detectors are called
GetCurrentFrameLock ==
    /\ caller = "idle"
    /\ current_frame # NoTime
    /\ current_raw_frame # NoTime
    /\ caller' = "detecting"
    /\ result' = NoResult
    /\ UNCHANGED <<guidanceState, toolState, threads, now, diskState, history>>

\* lines 676-743: the detectors have returned; the result is built, the lock is
\* released
GetCurrentFrameReturn ==
    /\ caller = "detecting"
    /\ caller' = Idle
    /\ result' = CurrentFrameResult
    /\ UNCHANGED <<guidanceState, toolState, threads, now, diskState, history>>

\* _get_detection_status, lines 211-229: a map of three status maps
GetDetectionStatus ==
    /\ caller = "idle"
    /\ result' = [NoResult EXCEPT
                     !.cmd = "get_detection_status",
                     !.keys = {"face_detection", "reading_material_detection",
                               "camera_status"}]
    /\ UNCHANGED <<guidanceState, toolState, threads, caller, now, diskState, history>>

\* process_command, lines 207-209: any other command name returns False
UnknownCommand ==
    /\ caller = "idle"
    /\ result' = [NoResult EXCEPT !.cmd = "unknown", !.type = "bool"]
    /\ UNCHANGED <<guidanceState, toolState, threads, caller, now, diskState, history>>

Next ==
    \/ AdvanceTime
    \/ OpenStep
    \/ LoopStep
    \/ ReadStep
    \/ BackoffStep
    \/ RawStep
    \/ GateStep
    \/ DueStep
    \/ StoreStep
    \/ SessionStep
    \/ AppendStep
    \/ Append2Step
    \/ StartCamera
    \/ \E id \in SessionIdParams : StartSession(id)
    \/ StartSessionReset
    \/ StartSessionActivate
    \/ EndSession
    \/ StopCamera
    \/ StopCameraJoin
    \/ GetCapturedImages
    \/ GetCurrentFrame
    \/ GetDetectionStatus
    \/ UnknownCommand

Spec == Init /\ [][Next]_vars

\* thread.join(timeout=5.0) returns: _stop_camera does not wait for ever
FairSpec == Spec /\ WF_vars(StopCameraJoin)

\* ------------------------------------------------------------ acquisition
\* The camera without sessions, where a start_camera that follows a stop_camera
\* whose join timed out starts a second thread beside the first.
StartCameraAgain == StartCameraUpTo(MaxGrabbers)

GrabNext ==
    \/ AdvanceTime
    \/ OpenStep
    \/ LoopStep
    \/ ReadStep
    \/ BackoffStep
    \/ RawStep
    \/ GateStep
    \/ DueStep
    \/ StoreStep
    \/ SessionStep
    \/ StartCameraAgain
    \/ StopCamera
    \/ StopCameraJoin
    \/ GetCurrentFrame

GrabSpec == Init /\ [][GrabNext]_vars

\* GrabSpec where every thread goes on when it can: a device read returns, a file
\* write and a callback return, and join(timeout=5.0) returns
FairGrabSpec ==
    /\ GrabSpec
    /\ WF_vars(OpenStep) /\ WF_vars(LoopStep) /\ WF_vars(ReadStep)
    /\ WF_vars(BackoffStep) /\ WF_vars(RawStep) /\ WF_vars(GateStep)
    /\ WF_vars(DueStep) /\ WF_vars(StoreStep) /\ WF_vars(SessionStep)
    /\ WF_vars(StopCameraJoin)

\* -------------------------------------------------- detectors that raise
\* One session on a camera whose detectors raise or work
DetectorInit ==
    /\ InitTool
    /\ frame_shape = <<6, 8>>
    /\ OneFaceOneMaterial
    /\ detector_raises \in SUBSET {"faces", "materials"}
    /\ NoArrow

DetectorNext ==
    \/ \E id \in UserIds : StartSession(id)
    \/ StartSessionReset
    \/ StartSessionActivate
    \/ OpenStep
    \/ LoopStep
    \/ ReadStep
    \/ BackoffStep
    \/ RawStep
    \/ GateStep
    \/ DueStep
    \/ StoreStep
    \/ SessionStep
    \/ AppendStep
    \/ Append2Step
    \/ EndSession
    \/ GetCurrentFrame

DetectorSpec == DetectorInit /\ [][DetectorNext]_vars

\* ------------------------------------- a session beside two grabber threads
\* A session on a camera that was restarted after a stop_camera whose join timed
\* out: the old thread and the new one both run the loop, at one time of the clock
OverlapNext ==
    \/ StartCameraAgain
    \/ StopCamera
    \/ StopCameraJoin
    \/ \E id \in UserIds : StartSession(id)
    \/ StartSessionReset
    \/ StartSessionActivate
    \/ OpenStep
    \/ LoopStep
    \/ ReadStep
    \/ BackoffStep
    \/ RawStep
    \/ GateStep
    \/ DueStep
    \/ StoreStep
    \/ SessionStep
    \/ AppendStep
    \/ Append2Step

OverlapSpec == Init /\ [][OverlapNext]_vars

\* ------------------------------------------------- the preview file
\* get_current_frame beside a tick whose swap of the processed slot and write of
\* the preview file are two steps
PreviewNext ==
    \/ AdvanceTime
    \/ StartCamera
    \/ OpenStep
    \/ LoopStep
    \/ ReadStep
    \/ BackoffStep
    \/ RawStep
    \/ GateStep
    \/ DueStep
    \/ SwapStep
    \/ PreviewStep
    \/ SessionStep
    \/ GetCurrentFrame

PreviewSpec == Init /\ [][PreviewNext]_vars

\* ------------------------------------------------ the lock of the slots
\* get_current_frame in its two steps beside a running camera
LockNext ==
    \/ AdvanceTime
    \/ StartCamera
    \/ StopCamera
    \/ StopCameraJoin
    \/ OpenStep
    \/ LoopStep
    \/ ReadStep
    \/ BackoffStep
    \/ RawStep
    \/ GateStep
    \/ DueStep
    \/ StoreStep
    \/ SessionStep
    \/ GetCurrentFrameLock
    \/ GetCurrentFrameReturn

LockSpec == Init /\ [][LockNext]_vars

\* ---------------------------------------------------- guidance of a scene
\* get_current_frame on a running camera, for every scene
GuidanceInit ==
    /\ InitTool
    /\ frame_shape \in FrameShapes
    /\ materials \in MaterialLists
    /\ faces = <<>>
    /\ detector_raises = {}
    /\ NoArrow

GuidanceNext ==
    \/ StartCamera
    \/ OpenStep
    \/ LoopStep
    \/ ReadStep
    \/ BackoffStep
    \/ RawStep
    \/ GateStep
    \/ DueStep
    \/ StoreStep
    \/ SessionStep
    \/ GetCurrentFrame

GuidanceSpec == GuidanceInit /\ [][GuidanceNext]_vars

\* ------------------------------------------------- command of an arrow
CommandInit ==
    /\ InitTool
    /\ OneScene
    /\ arrow_dx \in ArrowRange
    /\ arrow_dy \in ArrowRange
    /\ robot_command = None

\* lines 716-726 applied to the arrow
ComputeCommand ==
    /\ robot_command = None
    /\ robot_command' = RobotCommand(arrow_dx, arrow_dy)
    /\ UNCHANGED <<toolState, threads, caller, result, now, diskState, scene,
                   arrow_dx, arrow_dy, history>>

CommandNext == ComputeCommand

CommandSpec == CommandInit /\ [][CommandNext]_vars

\* ------------------------------------------------------------------ claims
StartSessionCall == \E id \in SessionIdParams : StartSession(id)
\* the device open of a thread fails (lines 463-466)
OpenFails == OpenStep /\ camera' = None

\* C1: start_session issued while a session is active returns success=false and
\* leaves session_active, session_id, session_dir and the captured-image list as
\* they were.
C1_StartSessionWhileActive ==
    [][session_active /\ StartSessionCall =>
          /\ result'.cmd = "start_session"
          /\ ~result'.success
          /\ caller' = Idle
          /\ UNCHANGED <<session_active, session_id, session_dir,
                         captured_images>>]_vars
\* a start_session has just been refused while a session with images is active
C1_Witness ==
    /\ result.cmd = "start_session"
    /\ ~result.success
    /\ session_active
    /\ Len(captured_images) > 0

\* C2: in every reachable state, session_active implies camera_running.
C2_SessionImpliesRunning == session_active => camera_running

\* C3: camera_running changes only from false to true by a start that succeeds
\* (start_camera, or the start made by start_session) and from true to false by
\* stop_camera; start_camera while the camera runs reports success and changes
\* neither the tool's state nor the threads.
C3_RunningTransitions ==
    [][/\ camera_running' # camera_running =>
             \/ /\ ~camera_running
                /\ StartCamera \/ StartSessionActivate
                /\ result'.success
             \/ camera_running /\ StopCamera
       /\ camera_running /\ StartCamera =>
             /\ result'.cmd = "start_camera"
             /\ result'.success
             /\ UNCHANGED <<toolState, threads>>]_vars

\* C4: when the device cannot be opened, camera_running is not true at that point
\* nor after it: the start that led to the open has not set the flag.
C4_OpenFailureNeverRunning ==
    [][OpenFails => ~camera_running /\ ~camera_running']_vars

\* C5 as stated: while a session is active (so also when end_session takes its
\* snapshot) the list is as long as the number of gate passes since the session's
\* start_session.
C5_LengthEqualsTicks == session_active => Len(captured_images) = ticks_since
\* C5 as amended: while a session is active the list is at most as long as the
\* number of ticks that touched the session: the gate passes since its list reset
\* plus the ticks that were mid-flight at that reset.
C5_LengthAtMostTicks ==
    session_active => Len(captured_images) <= ticks_since + inflight_at_reset
\* a session in which two ticks each appended their record
C5_Witness ==
    /\ session_active
    /\ ticks_since = 2
    /\ inflight_at_reset = 0
    /\ Len(captured_images) = 2

\* C6: once session_active is false no record is appended: the list end_session
\* returned changes only by the reset of a new start_session.
C6_NoAppendAfterEnd ==
    [][~session_active =>
          captured_images' = captured_images \/ captured_images' = <<>>]_vars

\* C7: end_session with an active session returns success=true with the current
\* session id and captured-image list, clears session_active, and leaves
\* camera_running, the acquisition threads and both frame slots as they were.
C7_EndSessionActive ==
    [][session_active /\ EndSession =>
          /\ result'.cmd = "end_session"
          /\ result'.success
          /\ result'.session_id = session_id
          /\ result'.images = captured_images
          /\ ~session_active'
          /\ UNCHANGED <<camera_running, threads, current_raw_frame,
                         current_frame, session_id, captured_images>>]_vars
\* end_session has just returned a session's images while the camera keeps running
C7_Witness ==
    /\ result.cmd = "end_session"
    /\ result.success
    /\ Len(result.images) > 0
    /\ ~session_active
    /\ camera_running
    /\ threads # EmptyBag
    /\ current_raw_frame # NoTime
    /\ current_frame # NoTime

\* C8: end_session with no active session returns success=false and changes neither
\* camera_running nor the previous session's id and captured-image list.
C8_EndSessionInactive ==
    [][~session_active /\ EndSession =>
          /\ result'.cmd = "end_session"
          /\ ~result'.success
          /\ result'.session_id = session_id
          /\ result'.images = captured_images
          /\ UNCHANGED <<toolState, threads>>]_vars
\* end_session has just been refused while the previous session's images are kept
C8_Witness ==
    /\ result.cmd = "end_session"
    /\ ~result.success
    /\ session_id # None
    /\ Len(captured_images) > 0
    /\ camera_running

\* C9: when start_session returns success the captured-image list is empty, and
\* the list is emptied or shortened by nothing but start_session's reset.
C9_StartSessionEmptiesList ==
    [][/\ StartSessionActivate /\ result'.success => captured_images' = <<>>
       /\ Len(captured_images') < Len(captured_images) => StartSessionReset]_vars

\* C10: an end_session that follows its start_session with no processing tick in
\* between returns an empty image list for the session's id, and the session
\* directory of that id exists.
C10_ImmediateEnd ==
    result.cmd = "end_session" /\ result.success /\ result.ticks = 0 =>
        /\ result.images = <<>>
        /\ result.session_id = session_id
        /\ session_dir = SessionDirPath(session_id)
        /\ session_dir \in dirs
\* start_session("abc") then end_session with no tick, the camera running all along
C10_Witness ==
    /\ result.cmd = "end_session"
    /\ result.success
    /\ result.ticks = 0
    /\ result.session_id = "abc"
    /\ SessionDirPath("abc") \in dirs
    /\ camera_running
    /\ current_frame # NoTime

\* the center of a box [x, y, w, h] (lines 402-403)
BoxCenterX(box) == box[1] + (box[3] \div 2)
BoxCenterY(box) == box[2] + (box[4] \div 2)

\* C11: while the camera runs, the raw slot holds the most recently read frame:
\* once it holds a frame it never goes back to a frame that was read earlier, so
\* no reader of the slot observes frame N after read N+1 has succeeded.
C11_DropOldest ==
    [][camera_running /\ current_raw_frame # NoTime /\ current_raw_frame' # NoTime
          => current_raw_frame' >= current_raw_frame]_vars

\* C12: when get_current_frame finds a material, the guidance is
\* dx = frame_width \div 2 - (center x of the first box) and
\* dy = frame_height \div 2 - (center y of the first box); with no material the
\* guidance is empty.
C12_GuidanceFromBox ==
    /\ result.cmd = "get_current_frame"
    /\ result.success
    /\ result.detection_data.keys # {}
    => LET guidance == result.detection_data.robot_guidance
       IN  IF materials = <<>>
           THEN guidance.keys = {}
           ELSE /\ guidance.arrow_dx =
                      (frame_shape[2] \div 2) - BoxCenterX(materials[1].box)
                /\ guidance.arrow_dy =
                      (frame_shape[1] \div 2) - BoxCenterY(materials[1].box)

\* C13: the command of (dx, dy) is "CENTERED" iff dx = 0 and dy = 0; otherwise
\* "MOVE_", then RIGHT (dx > 0) or LEFT (dx < 0), then DOWN (dy > 0) or UP
\* (dy < 0), with an underscore between the two tokens only when both are there;
\* (5,0) gives MOVE_RIGHT, (0,-5) MOVE_UP, (5,5) MOVE_RIGHT_DOWN and (-5,-5)
\* MOVE_LEFT_UP.
C13_CommandTable ==
    robot_command # None =>
        LET h == IF arrow_dx > 0 THEN "RIGHT" ELSE IF arrow_dx < 0 THEN "LEFT" ELSE ""
            v == IF arrow_dy > 0 THEN "DOWN" ELSE IF arrow_dy < 0 THEN "UP" ELSE ""
            sep == IF h # "" /\ v # "" THEN "_" ELSE ""
        IN  /\ (robot_command = "CENTERED") <=> (arrow_dx = 0 /\ arrow_dy = 0)
            /\ ~(arrow_dx = 0 /\ arrow_dy = 0) =>
                   robot_command = "MOVE_" \o h \o sep \o v
            /\ arrow_dx = 5 /\ arrow_dy = 0 => robot_command = "MOVE_RIGHT"
            /\ arrow_dx = 0 /\ arrow_dy = -5 => robot_command = "MOVE_UP"
            /\ arrow_dx = 5 /\ arrow_dy = 5 => robot_command = "MOVE_RIGHT_DOWN"
            /\ arrow_dx = -5 /\ arrow_dy = -5 => robot_command = "MOVE_LEFT_UP"
\* the command of the arrow (5, 5) has been computed
C13_Witness ==
    /\ arrow_dx = 5
    /\ arrow_dy = 5
    /\ robot_command = "MOVE_RIGHT_DOWN"

\* the command names process_command recognizes (lines 170-205)
RecognizedCommands ==
    {"start_camera", "stop_camera", "start_session", "end_session",
     "get_current_frame", "get_captured_images", "get_detection_status"}

\* C14: what process_command returns for a recognized command is a map with the
\* keys success and message.
C14_ResultHasSuccessAndMessage ==
    result.cmd \in RecognizedCommands =>
        /\ result.type = "dict"
        /\ {"success", "message"} \subseteq result.keys

\* C15: process_command with an unrecognized name returns a map with
\* success=false and a message, and changes neither the tool's state nor the
\* threads.
C15_UnknownCommandFails ==
    [][UnknownCommand =>
          /\ result'.type = "dict"
          /\ {"success", "message"} \subseteq result'.keys
          /\ ~result'.success
          /\ UNCHANGED <<toolState, threads, diskState>>]_vars

\* C16: when stop_camera has returned, session_active and camera_running are false
\* and both slots are empty; and the step of stop_camera that clears the running
\* flag leaves no session active.
C16_StopCameraReturns ==
    /\ [](result.cmd = "stop_camera" =>
             /\ ~session_active
             /\ ~camera_running
             /\ current_raw_frame = NoTime
             /\ current_frame = NoTime)
    /\ [][StopCamera /\ camera_running /\ ~camera_running' => ~session_active']_vars

\* C17: stop_camera on a camera that is not running returns success=true and
\* changes nothing of the tool's state, the threads or the disk; so a second
\* stop_camera ends in the state of the first.
C17_StopCameraIdempotent ==
    [][~camera_running /\ StopCamera =>
          /\ result'.cmd = "stop_camera"
          /\ result'.success
          /\ caller' = Idle
          /\ UNCHANGED <<toolState, threads, diskState>>]_vars

\* C18: a stop_camera that has cleared the running flag and waits for the thread
\* always returns, with success=true, whatever the thread does.
C18_StopCameraTerminates ==
    (caller = "joining") ~>
        (caller = Idle /\ result.cmd = "stop_camera" /\ result.success)
\* stop_camera has returned success while the thread is still in its device read
C18_Witness ==
    /\ result.cmd = "stop_camera"
    /\ result.success
    /\ caller = Idle
    /\ ~camera_running
    /\ \E th \in Live : th.pc = "read"

\* C19: on_image_captured is called (the step of lines 564-577) only while the
\* session is active, and each call goes with one record appended to the
\* session's list.
C19_ImageCallbackInSession ==
    [][Append2Step =>
          /\ session_active
          /\ Len(captured_images') = Len(captured_images) + 1]_vars

\* the ticks between their copy of the raw slot and their on_frame_captured call
AtStore == BagCardinality([th \in {x \in Live : x.pc = "store"} |-> threads[th]])
\* a processing tick: a gate check that was due sets the next due time
GatePasses == DueStep

\* C20 as stated: every processing tick (a gate check that is due) comes to one
\* on_frame_captured call.
C20_CallbackEveryTick ==
    [][GatePasses => frame_cb_due' = frame_cb_due + 1]_vars
\* C20 as amended: every processing tick that finds a frame in the raw slot comes
\* to exactly one on_frame_captured call, made by that tick after it has swapped
\* the processed slot; a tick that finds the raw slot empty and a gate check that
\* is not due come to none.
C20_CallbackEveryFramedTick ==
    /\ [](frame_cb_due = AtStore)
    /\ [][/\ GatePasses /\ current_raw_frame # NoTime =>
                frame_cb_due' = frame_cb_due + 1
          /\ GateStep \/ (GatePasses /\ current_raw_frame = NoTime) =>
                frame_cb_due' = frame_cb_due
          /\ frame_cb_due' < frame_cb_due =>
                /\ StoreStep
                /\ frame_cb_due' = frame_cb_due - 1
                /\ current_frame' # NoTime
          /\ StoreStep => frame_cb_due' = frame_cb_due - 1]_vars
\* a tick has made its on_frame_captured call and goes on to the session test
C20_Witness ==
    /\ frame_cb_due = 0
    /\ current_frame # NoTime
    /\ \E th \in Live : th.pc = "session"

\* C21: when creating the session directory fails, start_session returns
\* success=false and session_active, session_id, session_dir and the list are as
\* they were.
C21_DirectoryFailure ==
    [][StartSessionCall /\ ~session_active /\ caller' = Idle =>
          /\ result'.cmd = "start_session"
          /\ ~result'.success
          /\ UNCHANGED <<session_active, session_id, session_dir,
                         captured_images>>]_vars

\* C22: when the start of the camera made by start_session leaves the camera
\* stopped, start_session returns success=false with session_active false; so
\* after a start_session has returned, an active session has a running camera.
C22_AutoStartRollback ==
    /\ [][StartSessionActivate /\ ~camera_running /\ ~camera_running' =>
             ~result'.success /\ ~session_active']_vars
    /\ [](caller = Idle /\ session_active => camera_running)

\* C23: a thread that has opened the device ends only when the running flag is
\* clear.
C23_LoopSurvivesFailures ==
    [][BagCardinality(threads') < BagCardinality(threads) =>
          ~camera_running \/ OpenFails]_vars

\* C24: every write of the shared state is made by a step that holds the lock:
\* the slots and their timestamps are written under it by the store of a read
\* (lines 482-484), the swap of a tick (lines 538-540) and the clear of
\* stop_camera (lines 641-643); no step holds it to write session_active, the list
\* or next_process_time.
C24_SharedStateUnderLock ==
    [][/\ frameState' # frameState => RawStep \/ StoreStep \/ StopCameraJoin
       /\ UNCHANGED <<session_active, captured_images, next_process_time>>]_vars

\* C25: a tick whose preview write failed leaves the processed slot and
\* last_processed_time as they were before it.
C25_FailedTickDiscarded ==
    [][/\ StoreStep
       /\ \E th \in BagToSet(threads') : th.pc = "session" /\ th.preview_error
       => UNCHANGED <<current_frame, last_processed_time>>]_vars

\* C26: the record of a tick carries the count 0 for a detector whose call
\* raises.
C26_DetectorFailureCountsZero ==
    \A i \in DOMAIN captured_images :
        /\ "faces" \in detector_raises => captured_images[i].faces = 0
        /\ "materials" \in detector_raises =>
               captured_images[i].reading_materials = 0
\* a tick has completed and appended its record while the face detector raises
C26_Witness ==
    /\ "faces" \in detector_raises
    /\ faces # <<>>
    /\ Len(captured_images) > 0
    /\ captured_images[1].faces = 0
    /\ captured_images[1].reading_materials = 1

\* C27: while get_current_frame calls the detectors, a thread that has read a
\* frame can store it into the raw slot: the lock is not held during the call.
C27_DetectorOutsideLock ==
    caller = "detecting" /\ (\E th \in Live : th.pc = "raw") => ENABLED RawStep

\* C28: get_captured_images writes no file and changes no state.
C28_GetCapturedImagesPure ==
    /\ [](result.cmd = "get_captured_images" => result.written = {})
    /\ [][GetCapturedImages => UNCHANGED <<toolState, threads, diskState>>]_vars

\* C29: a gate check at now < next_due changes no state; a check at
\* now >= next_due sets next_due to the time of the check plus capture_interval;
\* and a tick starts no earlier than the next_due the tick before it has set.
C29_ProcessingGate ==
    [][/\ GateStep /\ now < next_process_time =>
             UNCHANGED <<toolState, diskState, history>>
       /\ \A th \in Live : ThreadDue(th) =>
             /\ next_process_time' = th.current_time + CaptureInterval
             /\ th.current_time >= next_process_time]_vars

\* a tick returns to the loop
TickEnds == (SessionStep \/ Append2Step) /\ InFlight' < InFlight

\* C30: when a tick ends, the next one is due capture_interval later or more.
C30_CadenceFromCompletion ==
    [][TickEnds => next_process_time' >= now + CaptureInterval]_vars

\* a device read returns ret = False (lines 488-491)
ReadFails ==
    \E th \in Live : /\ th.pc = "read"
                     /\ camera # None
                     /\ threads' = Replace(th, Goto(th, "backoff"))
\* the threads about to run the processing check (line 487)
AtGate == BagCardinality([th \in {x \in Live : x.pc = "gate"} |-> threads[th]])

\* C31: a device read that fails (ret is False) changes neither the slots, their
\* timestamps, the next due time nor the running flag, and sends the thread to
\* the backoff, from where it goes back to the loop test; a thread comes to the
\* processing check only by storing a frame that a read returned.
C31_FailedReadNotFatal ==
    /\ [](\A th \in Live : th.pc = "raw" => th.frame # NoTime)
    /\ [][/\ ReadStep /\ ReadFails =>
               /\ UNCHANGED <<frameState, next_process_time, camera_running, camera>>
               /\ AtGate' = AtGate
          /\ BackoffStep =>
               /\ UNCHANGED toolState
               /\ BagCardinality(threads') = BagCardinality(threads)
               /\ \E th \in Live' : th.pc = "loop"
          /\ AtGate' > AtGate => RawStep]_vars
\* a thread backs off after a failed read, beside a filled raw slot
C31_Witness ==
    /\ \E th \in Live : th.pc = "backoff"
    /\ current_raw_frame # NoTime
    /\ camera_running

\* C32: no two records of the captured-image list have the same file name (two
\* ticks of one session never write the same file).
C32_DistinctNames ==
    \A i, j \in DOMAIN captured_images :
        i # j => captured_images[i].filename # captured_images[j].filename

\* C33: every record of an active session's list carries that session's id and
\* names a file in that session's directory.
C33_RecordsBelongToSession ==
    session_active =>
        \A i \in DOMAIN captured_images :
            /\ captured_images[i].session_id = session_id
            /\ captured_images[i].filename =
                   ImagePath(session_dir, captured_images[i].timestamp)

\* the threads inside the body of the acquisition loop (past the loop test of
\* line 476: reading the device, storing into the raw slot, processing)
InLoop ==
    BagCardinality([th \in {x \in Live : x.pc \notin {"open", "loop"}}
                       |-> threads[th]])

\* C34: at most one thread is inside the body of the acquisition loop.
C34_OneAcquisitionLoop == InLoop <= 1

\* C35: while the running flag is set an acquisition thread exists.
C35_RunningImpliesThread == camera_running => threads # EmptyBag

\* C36: while the camera is stopped and no command is under way, the slots, once
\* empty, stay empty.
C36_SlotsStayEmpty ==
    [][/\ ~camera_running /\ caller = Idle
       /\ current_raw_frame = NoTime /\ current_frame = NoTime
       /\ ~camera_running'
       => current_raw_frame' = NoTime /\ current_frame' = NoTime]_vars

\* C37: when get_current_frame returns success with a timestamp, the preview file
\* holds the frame of that timestamp.
C37_PreviewFileCurrent ==
    result.cmd = "get_current_frame" /\ result.success
        => preview_file = result.timestamp

\* C38: when get_current_frame returns success with detection data, the frame its
\* detectors were run on is the frame in the processed slot.
C38_DetectionOfReturnedFrame ==
    result.cmd = "get_current_frame" /\ result.success /\ result.detected # NoTime
        => result.detected = current_frame

\* C39: once stop_camera has cleared the running flag with the device open, the
\* device is eventually released (the camera handle becomes empty).
C39_StopReleasesDevice ==
    (caller = "joining" /\ camera # None) ~> (camera = None)

====
